---- MODULE Spec2Model ----
(***************************************************************************)
(* Model of keyboard-middleware: the double-tap processor                  *)
(* (src/event_processor/actions/doubletap.rs), the niri game-mode probe    *)
(* (src/niri.rs) and the per-keyboard configuration view (src/config.rs).  *)
(***************************************************************************)
EXTENDS Integers, Sequences, FiniteSets, TLC

VARIABLES
    now,            \* monotonic clock read by Instant::now(), in ticks
    down,           \* the physical keyboard: the DT keys currently held
    released_at,    \* the physical keyboard: when a key that is up went up
    config,         \* DtProcessor.config
    tracked_keys,   \* DtProcessor.tracked_keys : HashMap<KeyCode, DtKey>
    hist,           \* per key: the calls made since the press that began its entry
    ret,            \* the value returned by the latest DtProcessor call
    proc,           \* /proc as the probe reads it: pid -> cmdline, environ, stat
    focused,        \* the WindowInfo of the focus change being handled
    probe,          \* the decision should_enable_gamemode took for it, if taken
    global_config,  \* the Config loaded from config.ron
    effective,      \* the latest for_keyboard call: the keyboard and its Config
    game_mode_active, \* the game-mode signal
    disk,           \* the content of config.ron on disk
    monitor,        \* the niri monitor thread, its event stream and its channel
    toggle,         \* a run of handle_toggle and its IPC exchange
    password        \* a password file and what Passwords::load returned for it

dtVars == <<now, down, released_at, config, tracked_keys, hist, ret>>

niriVars == <<proc, focused, probe>>

cfgVars == <<global_config, effective, game_mode_active>>

ioVars == <<disk, monitor, toggle, password>>

vars == <<now, down, released_at, config, tracked_keys, hist, ret, proc, focused, probe,
         global_config, effective, game_mode_active, disk, monitor, toggle, password>>

-----------------------------------------------------------------------------
(* Bounds of the model *)

\* largest double_tap_window_ms a DtConfig is built with
MaxWindow == 1

\* number of clock ticks in one millisecond (Instant is finer than as_millis)
TicksPerMs == 2

\* the last tick of the clock
MaxTime == 5

-----------------------------------------------------------------------------
(* Option<T> is a sequence of length at most one *)

None == <<>>

Some(x) == <<x>>

-----------------------------------------------------------------------------
(* Double-tap processor *)

\* the physical DT keys of the keyboard
DtKeys == {"KC_X", "KC_Y"}

\* DT(tap, double) as the key map gives it to on_press
TapKeyOf(keycode) == keycode

DoubleTapKeyOf(keycode) == IF keycode = "KC_X" THEN "KC_F11" ELSE "KC_F12"

FirstPress == "FirstPress"

WaitingSecondTap == "WaitingSecondTap"

DoubleTapDetected == "DoubleTapDetected"

DtState == {FirstPress, WaitingSecondTap, DoubleTapDetected}

SingleTap(kc) == [kind |-> "SingleTap", key |-> kc]

DoubleTap(kc) == [kind |-> "DoubleTap", key |-> kc]

Undecided == [kind |-> "Undecided", key |-> "-"]

\* Duration::as_millis: whole milliseconds, the remainder dropped
as_millis(ticks) == ticks \div TicksPerMs

DtKey_new(keycode, tap_key, double_tap_key, t) ==
    [keycode |-> keycode,
     tap_key |-> tap_key,
     double_tap_key |-> double_tap_key,
     first_press_at |-> t,
     first_release_at |-> None,
     state |-> FirstPress]

elapsed_since_first_press(dt_key, t) == as_millis(t - dt_key.first_press_at)

elapsed_since_first_release(dt_key, t) ==
    IF dt_key.first_release_at = None
    THEN None
    ELSE Some(as_millis(t - dt_key.first_release_at[1]))

\* HashMap::remove and HashMap::insert on a function with a finite domain
MapRemove(m, k) == [x \in (DOMAIN m) \ {k} |-> m[x]]

MapInsert(m, k, v) == [x \in (DOMAIN m) \cup {k} |-> IF x = k THEN v ELSE m[x]]

\* IsSecondTap with the window's last millisecond left out
IsSecondTap_exclusive(dt_key, cfg, t) ==
    /\ dt_key.state = WaitingSecondTap
    /\ elapsed_since_first_release(dt_key, t) # None
    /\ elapsed_since_first_release(dt_key, t)[1] < cfg.double_tap_window_ms

\* the test of on_press: a second press inside the window
IsSecondTap(dt_key, cfg, t) ==
    /\ dt_key.state = WaitingSecondTap
    /\ elapsed_since_first_release(dt_key, t) # None
    /\ elapsed_since_first_release(dt_key, t)[1] <= cfg.double_tap_window_ms

\* on_press: the new map and the resolution returned
on_press(tk, cfg, keycode, tap_key, double_tap_key, t) ==
    IF keycode \in DOMAIN tk /\ IsSecondTap(tk[keycode], cfg, t)
    THEN [tracked |-> [tk EXCEPT ![keycode].state = DoubleTapDetected],
          res |-> DoubleTap(tk[keycode].double_tap_key)]
    ELSE [tracked |-> MapInsert(MapRemove(tk, keycode), keycode,
                                DtKey_new(keycode, tap_key, double_tap_key, t)),
          res |-> Undecided]

\* on_release that forgets to clean up after a double tap
on_release_keep(tk, keycode, t) ==
    IF keycode \in DOMAIN tk /\ tk[keycode].state = FirstPress
    THEN [tracked |-> [tk EXCEPT ![keycode].state = WaitingSecondTap,
                                 ![keycode].first_release_at = Some(t)],
          res |-> Undecided]
    ELSE [tracked |-> tk, res |-> Undecided]

\* on_release that waits for another tap after a double tap
on_release_rearm(tk, keycode, t) ==
    IF keycode \in DOMAIN tk
    THEN [tracked |-> [tk EXCEPT ![keycode].state = WaitingSecondTap,
                                 ![keycode].first_release_at = Some(t)],
          res |-> Undecided]
    ELSE [tracked |-> tk, res |-> Undecided]

\* on_release: the new map and the resolution returned
on_release(tk, keycode, t) ==
    IF keycode \in DOMAIN tk
    THEN CASE tk[keycode].state = FirstPress ->
                [tracked |-> [tk EXCEPT ![keycode].state = WaitingSecondTap,
                                        ![keycode].first_release_at = Some(t)],
                 res |-> Undecided]
           [] tk[keycode].state = DoubleTapDetected ->
                [tracked |-> MapRemove(tk, keycode), res |-> Undecided]
           [] OTHER -> [tracked |-> tk, res |-> Undecided]
    ELSE [tracked |-> tk, res |-> Undecided]

\* IsExpired with the window over a millisecond early
IsExpired_inclusive(dt_key, window_ms, t) ==
    CASE dt_key.state = WaitingSecondTap ->
            /\ elapsed_since_first_release(dt_key, t) # None
            /\ elapsed_since_first_release(dt_key, t)[1] >= window_ms
      [] dt_key.state = FirstPress ->
            elapsed_since_first_press(dt_key, t) >= window_ms
      [] OTHER -> FALSE

\* IsExpired with the window over a millisecond late
IsExpired_late(dt_key, window_ms, t) ==
    CASE dt_key.state = WaitingSecondTap ->
            /\ elapsed_since_first_release(dt_key, t) # None
            /\ elapsed_since_first_release(dt_key, t)[1] > window_ms + 1
      [] dt_key.state = FirstPress ->
            elapsed_since_first_press(dt_key, t) > window_ms + 1
      [] OTHER -> FALSE

\* IsExpired that also times out an entry whose double tap was detected
IsExpired_every_state(dt_key, window_ms, t) ==
    CASE dt_key.state = FirstPress ->
            elapsed_since_first_press(dt_key, t) > window_ms
      [] OTHER ->
            /\ elapsed_since_first_release(dt_key, t) # None
            /\ elapsed_since_first_release(dt_key, t)[1] > window_ms

\* the filter of check_timeouts: is this key's window over
IsExpired(dt_key, window_ms, t) ==
    CASE dt_key.state = WaitingSecondTap ->
            /\ elapsed_since_first_release(dt_key, t) # None
            /\ elapsed_since_first_release(dt_key, t)[1] > window_ms
      [] dt_key.state = FirstPress ->
            elapsed_since_first_press(dt_key, t) > window_ms
      [] OTHER -> FALSE

\* the keys check_timeouts collects into `expired`
ExpiredKeys(tk, cfg, t) ==
    {k \in DOMAIN tk : IsExpired(tk[k], cfg.double_tap_window_ms, t)}

\* check_timeouts that resolves the expired keys and leaves them in the map
check_timeouts_tracked_keep(tk, cfg, t) == tk

\* the map check_timeouts leaves: every expired key removed
check_timeouts_tracked(tk, cfg, t) ==
    [x \in (DOMAIN tk) \ ExpiredKeys(tk, cfg, t) |-> tk[x]]

\* the resolution check_timeouts pushes for an expired key
TimeoutResolution(dt_key) == SingleTap(dt_key.tap_key)

\* the orders in which a HashMap may iterate over the keys S
Orders(S) ==
    {s \in [1..Cardinality(S) -> S] : \A i, j \in 1..Cardinality(S) : s[i] = s[j] => i = j}

tracked_count(tk) == Cardinality(DOMAIN tk)

\* how a real duration compares with the window: "within" is at most
\* double_tap_window_ms, "just_over" is more but less than a millisecond
\* more, "over" is at least a millisecond more
Timing(ticks, cfg) ==
    IF ticks <= cfg.double_tap_window_ms * TicksPerMs THEN "within"
    ELSE IF ticks < (cfg.double_tap_window_ms + 1) * TicksPerMs THEN "just_over"
    ELSE "over"

\* the time since the key's last release (since its press while it is held)
\* compared with the window; a release no longer remembered is "over"
When(keycode) ==
    IF keycode \in down
    THEN IF keycode \in DOMAIN tracked_keys
         THEN Timing(now - tracked_keys[keycode].first_press_at, config)
         ELSE "over"
    ELSE IF released_at[keycode] # None
         THEN Timing(now - released_at[keycode][1], config)
         ELSE "over"

\* one record of hist: the call, the state of the key's entry before it, When
\* at a press or a timeout, and the resolution returned for the key
Event(op, keycode, res) ==
    [op |-> op,
     pre |-> IF keycode \in DOMAIN tracked_keys
             THEN tracked_keys[keycode].state ELSE "Untracked",
     when |-> IF op = "release" THEN "-" ELSE When(keycode),
     res |-> res]

\* no configuration in use: an empty Config, no keyboard view, no game
ConfigIdle ==
    /\ global_config = [tapping_term_ms |-> 200, double_tap_window_ms |-> <<>>,
                        enabled_keyboards |-> <<>>, remaps |-> <<>>, layers |-> <<>>,
                        game_mode |-> [remaps |-> <<>>], keyboard_overrides |-> <<>>]
    /\ effective = <<>>
    /\ game_mode_active = FALSE

\* nothing on disk, no monitor thread, no handle_toggle run, no password read
IoIdle ==
    /\ disk = [content |-> <<>>, by |-> "user"]
    /\ monitor = [pc |-> "not_started", stream |-> <<>>, read |-> <<>>, sends |-> <<>>,
                  rx_alive |-> TRUE, failures |-> 0, last |-> "none"]
    /\ toggle = [pc |-> "not_started", keyboards |-> <<>>, selections |-> {}, i |-> 1,
                 changes_made |-> FALSE, requests |-> <<>>, answers |-> <<>>,
                 result |-> "running", reported |-> "none"]
    /\ password = [pc |-> "not_started", config_dir |-> TRUE, file |-> <<>>,
                   result |-> [kind |-> "none", value |-> <<>>]]

InitDt ==
    /\ now = 0
    /\ down = {}
    /\ released_at = [k \in DtKeys |-> None]
    /\ config \in {[double_tap_window_ms |-> w] : w \in 0..MaxWindow}
    /\ tracked_keys = <<>>
    /\ hist = [k \in DtKeys |-> <<>>]
    /\ ret = [op |-> "new", value |-> <<>>]
    /\ proc = [p \in {1} |-> [cmdline |-> None, environ |-> None, ppid |-> Some(0)]]
    /\ focused = [app_id |-> None, pid |-> None]
    /\ probe = None
    /\ ConfigIdle
    /\ IoIdle

\* time passes; a release is remembered until it is "over"
Tick ==
    /\ now < MaxTime
    /\ now' = now + 1
    /\ released_at' = [k \in DtKeys |->
          IF released_at[k] # None /\ Timing(now' - released_at[k][1], config) = "over"
          THEN None ELSE released_at[k]]
    /\ UNCHANGED <<down, config, tracked_keys, hist, ret, niriVars, cfgVars, ioVars>>

\* the key goes down and the dispatcher calls on_press; a press that starts a
\* new entry starts a new hist
OnPress(keycode) ==
    /\ keycode \notin down
    /\ down' = down \cup {keycode}
    /\ released_at' = [released_at EXCEPT ![keycode] = None]
    /\ LET r == on_press(tracked_keys, config, keycode, TapKeyOf(keycode),
                         DoubleTapKeyOf(keycode), now)
           e == Event("press", keycode, r.res)
       IN /\ tracked_keys' = r.tracked
          /\ ret' = [op |-> "on_press", value |-> <<<<keycode, r.res>>>>]
          /\ hist' = [hist EXCEPT ![keycode] =
                        IF r.res = Undecided THEN <<e>> ELSE Append(@, e)]
    /\ UNCHANGED <<now, config, niriVars, cfgVars, ioVars>>

\* the key goes up and the dispatcher calls on_release
OnRelease(keycode) ==
    /\ keycode \in down
    /\ down' = down \ {keycode}
    /\ released_at' = [released_at EXCEPT ![keycode] = Some(now)]
    /\ LET r == on_release(tracked_keys, keycode, now)
           e == Event("release", keycode, r.res)
       IN /\ tracked_keys' = r.tracked
          /\ ret' = [op |-> "on_release", value |-> <<<<keycode, r.res>>>>]
          /\ hist' = [hist EXCEPT ![keycode] = Append(@, e)]
    /\ UNCHANGED <<now, config, niriVars, cfgVars, ioVars>>

\* the dispatcher's periodic call of check_timeouts
CheckTimeouts ==
    /\ \E order \in Orders(ExpiredKeys(tracked_keys, config, now)) :
          ret' = [op |-> "check_timeouts",
                  value |-> [i \in DOMAIN order |->
                               <<order[i], TimeoutResolution(tracked_keys[order[i]])>>]]
    /\ tracked_keys' = check_timeouts_tracked(tracked_keys, config, now)
    /\ hist' = [k \in DtKeys |->
                  IF k \in ExpiredKeys(tracked_keys, config, now)
                  THEN Append(hist[k], Event("timeout", k,
                                             TimeoutResolution(tracked_keys[k])))
                  ELSE hist[k]]
    /\ UNCHANGED <<now, down, released_at, config, niriVars, cfgVars, ioVars>>

NextDt ==
    \/ Tick
    \/ \E k \in DtKeys : OnPress(k)
    \/ \E k \in DtKeys : OnRelease(k)
    \/ CheckTimeouts

SpecDt == InitDt /\ [][NextDt]_vars

-----------------------------------------------------------------------------
(* Game-mode probe. A string is the sequence of its characters. *)

S_gamescope == <<"g", "a", "m", "e", "s", "c", "o", "p", "e">>

S_custom_gamescope == <<"c", "u", "s", "t", "o", "m", "-", "g", "a", "m", "e", "s", "c", "o", "p", "e">>

S_gamemode == <<"g", "a", "m", "e", "m", "o", "d", "e">>

S_steam_app_ == <<"s", "t", "e", "a", "m", "_", "a", "p", "p", "_">>

\* the upper-case letters of the model's strings and their lower case
CasePairs ==
    {<<"G", "g">>, <<"A", "a">>, <<"M", "m">>, <<"E", "e">>, <<"S", "s">>,
     <<"C", "c">>, <<"O", "o">>, <<"P", "p">>, <<"D", "d">>, <<"T", "t">>}

\* char::to_lowercase
LowerChar(c) ==
    IF \E p \in CasePairs : p[1] = c
    THEN (CHOOSE p \in CasePairs : p[1] = c)[2]
    ELSE c

\* a to_lowercase that leaves every character as it is
to_lowercase_identity(str) == str

\* str::to_lowercase
to_lowercase(str) == [i \in DOMAIN str |-> LowerChar(str[i])]

\* str::contains
contains(str, pat) ==
    \E i \in 1..(Len(str) - Len(pat) + 1) : SubSeq(str, i, i + Len(pat) - 1) = pat

\* the window titles' application ids the compositor reports
AppIds ==
    {S_gamescope,
     <<"G", "a", "m", "e", "s", "c", "o", "p", "e">>,
     <<"s", "t", "e", "a", "m", "_", "a", "p", "p", "_", "0">>,
     <<"s", "t", "e", "a", "m", "_", "a", "p", "p", "_", "4", "4", "0">>,
     <<"s", "t", "e", "a", "m", "_", "a", "p", "p", "_", "1", "2", "3", "4", "5", "6", "7", "8", "9", "0">>,
     <<"s", "t", "e", "a", "m">>,
     <<"f", "i", "r", "e", "f", "o", "x">>,
     <<"o", "r", "g", ".", "g", "n", "o", "m", "e", ".", "T", "e", "r", "m", "i", "n", "a", "l">>}

\* the contents of /proc/<pid>/cmdline
CmdLines ==
    {<<"b", "a", "s", "h">>,
     <<"G", "a", "m", "e", "S", "c", "o", "p", "e", " ", "-", "f">>,
     <<"g", "a", "m", "e", "m", "o", "d", "e", "r", "u", "n", " ", "x">>,
     <<"g", "a", "m", "e", "s", "c", "o", "p", " ", "e">>}

\* the variables of /proc/<pid>/environ
Environs ==
    {<<"PATH=/bin">>, <<"PATH=/bin", "IS_GAME=1">>, <<"IS_GAME=10", "XIS_GAME=1">>}

\* the number of processes check_process_tree looks at
process_tree_depth == 10

\* the highest pid of the small process tables
MaxPid == 3

\* init, as every /proc shows it to an unprivileged reader
InitProcess == [cmdline |-> Some(<<"i", "n", "i", "t">>), environ |-> None, ppid |-> Some(0)]

\* a process: each of its three files readable (Some) or not (None)
Processes ==
    [cmdline : {None} \cup {Some(c) : c \in CmdLines},
     environ : {None} \cup {Some(e) : e \in Environs},
     ppid : {None} \cup {Some(p) : p \in 1..MaxPid}]

\* the processes that stand as the parents in the small process tables: a
\* shell or gamescope or an unreadable cmdline, no readable parent or the pid
\* below as the parent, and a shell whose own environment has IS_GAME=1
Parents ==
    {p \in Processes :
        /\ p.cmdline \in {None, Some(<<"b", "a", "s", "h">>),
                          Some(<<"G", "a", "m", "e", "S", "c", "o", "p", "e", " ", "-", "f">>)}
        /\ p.environ = None \/ (p.environ = Some(<<"PATH=/bin", "IS_GAME=1">>)
                                 /\ p.cmdline = Some(<<"b", "a", "s", "h">>))
        /\ p.ppid \in {None, Some(MaxPid - 1)}}

\* a chain of shells, each the child of the next pid, one of them gamescope
LongChain(at) ==
    [p \in 2..(process_tree_depth + 3) |->
        [cmdline |-> Some(IF p = at THEN S_gamescope ELSE <<"b", "a", "s", "h">>),
         environ |-> Some(<<"PATH=/bin">>),
         ppid |-> Some(IF p = process_tree_depth + 3 THEN 1 ELSE p + 1)]]

\* pid 1 is init, pid 2 any process, the pids above it parents
ProcTables ==
    {[p \in 1..MaxPid |-> IF p = 1 THEN InitProcess
                          ELSE IF p = 2 THEN child ELSE f[p]] :
        child \in Processes, f \in [3..MaxPid -> Parents]}
    \cup {LongChain(at) : at \in 2..(process_tree_depth + 3)}

\* the windows a focus change may report; pid MaxPid + 1 is no process
Windows ==
    [app_id : {None} \cup {Some(a) : a \in AppIds},
     pid : {None} \cup {Some(p) : p \in 1..(MaxPid + 1)}]

\* fs::read of /proc/<pid>/<file>: None when it fails
ReadProc(table, pid, file) ==
    IF pid \in DOMAIN table THEN table[pid][file] ELSE None

check_is_game_env(table, pid) ==
    LET contents == ReadProc(table, pid, "environ")
    IN  /\ contents # None
        /\ \E i \in DOMAIN contents[1] : contents[1][i] = "IS_GAME=1"

\* one turn of the loop of check_process_tree on current_pid: the two flags
CmdlineFlags(table, current_pid, flags) ==
    LET contents == ReadProc(table, current_pid, "cmdline")
        cmd_lower == to_lowercase(contents[1])
    IN  IF contents = None
        THEN flags
        ELSE <<flags[1] \/ contains(cmd_lower, S_gamescope)
                        \/ contains(cmd_lower, S_custom_gamescope),
               flags[2] \/ contains(cmd_lower, S_gamemode)>>

RECURSIVE ProcessTreeLoop(_, _, _, _)
\* the loop of check_process_tree with `left` turns to go
ProcessTreeLoop(table, current_pid, flags, left) ==
    IF left = 0
    THEN flags
    ELSE LET seen == CmdlineFlags(table, current_pid, flags)
             parent_pid == ReadProc(table, current_pid, "ppid")
         IN  IF parent_pid # None /\ parent_pid[1] > 1
             THEN ProcessTreeLoop(table, parent_pid[1], seen, left - 1)
             ELSE seen

RECURSIVE InspectedPids_to_init(_, _, _)
\* a walk that goes on to init
InspectedPids_to_init(table, current_pid, left) ==
    IF left = 0
    THEN <<>>
    ELSE LET parent_pid == ReadProc(table, current_pid, "ppid")
         IN  <<current_pid>> \o
                (IF parent_pid # None /\ parent_pid[1] >= 1
                 THEN InspectedPids_to_init(table, parent_pid[1], left - 1)
                 ELSE <<>>)

RECURSIVE InspectedPids(_, _, _)
\* the pids whose cmdline the loop of check_process_tree reads, in order,
\* with `left` turns to go
InspectedPids(table, current_pid, left) ==
    IF left = 0
    THEN <<>>
    ELSE LET parent_pid == ReadProc(table, current_pid, "ppid")
         IN  <<current_pid>> \o
                (IF parent_pid # None /\ parent_pid[1] > 1
                 THEN InspectedPids(table, parent_pid[1], left - 1)
                 ELSE <<>>)

check_process_tree(table, process_id) ==
    ProcessTreeLoop(table, process_id, <<FALSE, FALSE>>, process_tree_depth)

should_enable_gamemode(table, window_info) ==
    IF window_info.app_id = Some(S_gamescope)
    THEN TRUE
    ELSE IF window_info.pid # None
         THEN IF check_is_game_env(table, window_info.pid[1])
              THEN TRUE
              ELSE LET t == check_process_tree(table, window_info.pid[1])
                   IN  t[1] \/ t[2]
         ELSE FALSE

NiriIdle ==
    /\ proc = [p \in {1} |-> InitProcess]
    /\ focused = [app_id |-> None, pid |-> None]
    /\ probe = None

DtIdle ==
    /\ now = 0
    /\ down = {}
    /\ released_at = [k \in DtKeys |-> None]
    /\ config = [double_tap_window_ms |-> 0]
    /\ tracked_keys = <<>>
    /\ hist = [k \in DtKeys |-> <<>>]
    /\ ret = [op |-> "new", value |-> <<>>]

\* a focus change arrives with any window, over any process table
InitNiri ==
    /\ proc \in ProcTables
    /\ focused \in Windows
    /\ probe = None
    /\ DtIdle
    /\ ConfigIdle
    /\ IoIdle

\* the focus change is handled: the decision is taken for its window
HandleFocusChange ==
    /\ probe = None
    /\ probe' = Some(should_enable_gamemode(proc, focused))
    /\ UNCHANGED <<proc, focused, dtVars, cfgVars, ioVars>>

NextNiri == HandleFocusChange

SpecNiri == InitNiri /\ [][NextNiri]_vars

-----------------------------------------------------------------------------
(* What a step of the double-tap processor was, read off the variables *)

IsPressStep(k) == k \notin down /\ k \in down'

IsReleaseStep(k) == k \in down /\ k \notin down'

IsTimeoutStep == now' = now /\ down' = down /\ ret'.op = "check_timeouts"

\* the keys the call that just returned gave a resolution for
ResolvedBy(r) == {r.value[i][1] : i \in {j \in DOMAIN r.value : r.value[j][2] # Undecided}}

\* the resolution on_press or on_release just returned
Returned(r) == r.value[1][2]

Tracked(k) == k \in DOMAIN tracked_keys

\* the events of a hist that carry a resolution
Yields(h) == {i \in DOMAIN h : h[i].res # Undecided}

\* a hist that begins with a first press and its release while still tracked
TappedOnce(h) ==
    /\ Len(h) >= 2
    /\ h[1].op = "press"
    /\ h[2].op = "release"
    /\ h[2].pre = FirstPress
    /\ \A i \in 2..Len(h) : h[i].op # "press"

\* a hist with a first press and a release, resolved in between or not
PressedAndReleased(h) ==
    /\ Len(h) >= 2
    /\ h[1].op = "press"
    /\ \E i \in DOMAIN h : h[i].op = "release"
    /\ \A i \in 2..Len(h) : h[i].op # "press"

StateRank(st) ==
    CASE st = FirstPress -> 1
      [] st = WaitingSecondTap -> 2
      [] st = DoubleTapDetected -> 3

-----------------------------------------------------------------------------
(* C1 *)

\* once a double tap is in a key's hist, nothing else was resolved for it
OnlyTheDoubleTap(k) ==
    (\E i \in DOMAIN hist[k] : hist[k][i].res.kind = "DoubleTap")
        => /\ Cardinality(Yields(hist[k])) = 1
           /\ \A i \in Yields(hist[k]) : hist[k][i].res = DoubleTap(DoubleTapKeyOf(k))

\* C1 as claimed: a first press and release followed by a second press no
\* more than double_tap_window_ms after the first release resolve to
\* DoubleTap(double_tap_key) and to nothing else, whatever check_timeouts
\* calls came in between: no SingleTap before the double tap and none after
C1_Original ==
    /\ [][\A k \in DtKeys :
            (IsPressStep(k) /\ PressedAndReleased(hist[k]) /\ When(k) = "within")
                => /\ Returned(ret') = DoubleTap(DoubleTapKeyOf(k))
                   /\ Yields(hist[k]) = {}]_vars
    /\ [](\A k \in DtKeys : OnlyTheDoubleTap(k))

\* C1 as amended: the same, for a first press that check_timeouts did not
\* resolve while it was still held (the entry is alive at the first release)
C1_DoubleTapExclusive ==
    /\ [][\A k \in DtKeys :
            (IsPressStep(k) /\ TappedOnce(hist[k]) /\ When(k) = "within")
                => /\ Returned(ret') = DoubleTap(DoubleTapKeyOf(k))
                   /\ Yields(hist[k]) = {}]_vars
    /\ [](\A k \in DtKeys : OnlyTheDoubleTap(k))

\* a double tap, its release and a check_timeouts call after it have happened
C1_Witness ==
    \E k \in DtKeys :
        /\ Len(hist[k]) = 4
        /\ hist[k][3].res = DoubleTap(DoubleTapKeyOf(k))
        /\ hist[k][4].op = "release"
        /\ ret.op = "check_timeouts"
        /\ config.double_tap_window_ms > 0

-----------------------------------------------------------------------------
(* C2 *)

-----------------------------------------------------------------------------
(* C3 *)

\* C3: a DoubleTap is returned only by on_press, by the very call of the
\* second press that moves the entry to DoubleTapDetected; the release after
\* it returns Undecided and removes the entry, and the press after that
\* starts a fresh FirstPress entry
C3_DoubleTapInstant ==
    /\ [](\A k \in DtKeys :
            /\ \A i \in DOMAIN hist[k] :
                  hist[k][i].res.kind = "DoubleTap"
                      => /\ i = 3
                         /\ hist[k][i].op = "press"
                         /\ hist[k][i].pre = WaitingSecondTap
            /\ (Len(hist[k]) = 3 /\ hist[k][3].res.kind = "DoubleTap")
                  => (Tracked(k) /\ tracked_keys[k].state = DoubleTapDetected)
            /\ (Len(hist[k]) >= 4 /\ hist[k][3].res.kind = "DoubleTap")
                  => /\ hist[k][4].op = "release"
                     /\ hist[k][4].res = Undecided
                     /\ ~Tracked(k)
                     /\ Len(hist[k]) = 4)
    /\ [](ret.op # "on_press"
            => \A i \in DOMAIN ret.value : ret.value[i][2].kind # "DoubleTap")
    /\ [][\A k \in DtKeys :
            /\ (Tracked(k)' /\ tracked_keys'[k].state = DoubleTapDetected
                  /\ ~(Tracked(k) /\ tracked_keys[k].state = DoubleTapDetected))
                  => /\ IsPressStep(k)
                     /\ Returned(ret') = DoubleTap(DoubleTapKeyOf(k))
            /\ (IsPressStep(k) /\ Len(hist[k]) = 4
                  /\ hist[k][3].res.kind = "DoubleTap")
                  => /\ Returned(ret') = Undecided
                     /\ tracked_keys'[k] =
                          DtKey_new(k, TapKeyOf(k), DoubleTapKeyOf(k), now)]_vars

\* a double tap was returned and its release has cleaned the entry up
C3_Witness ==
    \E k \in DtKeys :
        /\ Len(hist[k]) = 4
        /\ hist[k][3].res.kind = "DoubleTap"
        /\ ret.op = "on_release"
        /\ ret.value[1][1] = k
        /\ ~Tracked(k)

-----------------------------------------------------------------------------
(* C4 *)

\* C4 as claimed: a key resolved by check_timeouts while it is still held
\* stays tracked as held, and its later release returns the resolution that
\* lets the tap key go up
C4_HeldPastWindowIsHeld ==
    \A k \in DtKeys :
        (Len(hist[k]) >= 2 /\ hist[k][2].op = "timeout" /\ hist[k][2].pre = FirstPress)
            => /\ k \in down => Tracked(k)
               /\ (Len(hist[k]) >= 3 /\ hist[k][3].op = "release")
                     => hist[k][3].res # Undecided

-----------------------------------------------------------------------------
(* C5 *)

\* C5 as claimed: the state of a key tracked before and after a call never
\* moves back
C5_Original ==
    [][\A k \in DtKeys :
          (Tracked(k) /\ Tracked(k)')
              => StateRank(tracked_keys'[k].state) >= StateRank(tracked_keys[k].state)]_vars

\* C5 as amended: the state of an entry never moves back; a key tracked
\* before and after a call keeps its entry unless the call is an on_press
\* that returns Undecided, which replaces the entry by a fresh FirstPress one
C5_StateMonotonePerEntry ==
    [][\A k \in DtKeys :
          (Tracked(k) /\ Tracked(k)')
              => IF IsPressStep(k) /\ Returned(ret') = Undecided
                 THEN tracked_keys'[k] =
                          DtKey_new(k, TapKeyOf(k), DoubleTapKeyOf(k), now)
                 ELSE /\ StateRank(tracked_keys'[k].state)
                            >= StateRank(tracked_keys[k].state)
                      /\ tracked_keys'[k].first_press_at
                            = tracked_keys[k].first_press_at]_vars

\* an entry has gone through all three states, and another was replaced
C5_Witness ==
    /\ \E k \in DtKeys : Tracked(k) /\ tracked_keys[k].state = DoubleTapDetected
    /\ \E k \in DtKeys :
          /\ Len(hist[k]) = 1
          /\ hist[k][1].pre = WaitingSecondTap
          /\ Tracked(k)

-----------------------------------------------------------------------------
(* C6 *)

\* an entry appears only by an on_press of its key, and a press of an
\* untracked key makes it tracked
CreatedByPress(k) ==
    /\ (~Tracked(k) /\ Tracked(k)') => IsPressStep(k)
    /\ (IsPressStep(k) /\ ~Tracked(k))
          => /\ Tracked(k)'
             /\ tracked_count(tracked_keys') = tracked_count(tracked_keys) + 1

\* a check_timeouts call removes exactly the keys it resolves
RemovedByTimeout(k) ==
    IsTimeoutStep
        => /\ k \in ResolvedBy(ret') => (Tracked(k) /\ ~Tracked(k)')
           /\ tracked_count(tracked_keys')
                 = tracked_count(tracked_keys) - Cardinality(ResolvedBy(ret'))

\* C6 as claimed: an entry is created by the first press and removed by the
\* timeout that resolves it or by the second press, after which the key is
\* not counted by tracked_count
C6_Original ==
    [][\A k \in DtKeys :
          /\ CreatedByPress(k)
          /\ RemovedByTimeout(k)
          /\ (IsPressStep(k) /\ Tracked(k))
                => /\ ~Tracked(k)'
                   /\ tracked_count(tracked_keys') = tracked_count(tracked_keys) - 1]_vars

\* C6 as amended: an entry is created by the first press and removed by the
\* timeout that resolves it or by the release that follows a second press
\* inside the window, and by nothing else; the second press itself leaves
\* the key counted by tracked_count
C6_Lifecycle ==
    [][\A k \in DtKeys :
          /\ CreatedByPress(k)
          /\ RemovedByTimeout(k)
          /\ (IsPressStep(k) /\ Tracked(k))
                => /\ Tracked(k)'
                   /\ tracked_count(tracked_keys') = tracked_count(tracked_keys)
          /\ (IsReleaseStep(k) /\ Tracked(k) /\ tracked_keys[k].state = DoubleTapDetected)
                => /\ ~Tracked(k)'
                   /\ tracked_count(tracked_keys') = tracked_count(tracked_keys) - 1
          /\ (Tracked(k) /\ ~Tracked(k)')
                => \/ IsTimeoutStep /\ k \in ResolvedBy(ret')
                   \/ IsReleaseStep(k) /\ tracked_keys[k].state = DoubleTapDetected]_vars

\* a second press has returned the double tap and both keys are counted
C6_Witness ==
    /\ ret.op = "on_press"
    /\ Returned(ret).kind = "DoubleTap"
    /\ tracked_count(tracked_keys) = 2

-----------------------------------------------------------------------------
(* C7, C8 *)

StartsWith(str, pat) ==
    Len(str) >= Len(pat) /\ SubSeq(str, 1, Len(pat)) = pat

\* two characters that are the same letter, whatever their case
SameLetter(a, b) == a = b \/ <<a, b>> \in CasePairs \/ <<b, a>> \in CasePairs

\* pat occurs in str, case set aside
OccursIn(str, pat) ==
    \E i \in 1..(Len(str) - Len(pat) + 1) :
        \A j \in 1..Len(pat) : SameLetter(str[i + j - 1], pat[j])

RECURSIVE Visit(_, _, _)
\* the process the walk up from pid looks at after i steps to the parent, if
\* the walk gets that far: it stops at a process whose parent it cannot read
\* or whose parent is init or the kernel
Visit(table, pid, i) ==
    IF i = 0
    THEN Some(pid)
    ELSE LET below == Visit(table, pid, i - 1)
         IN  IF below = None
             THEN None
             ELSE LET up == ReadProc(table, below[1], "ppid")
                  IN  IF up # None /\ up[1] > 1 THEN up ELSE None

\* the process of the window and its walked ancestors
Walked(table, pid) ==
    {Visit(table, pid, i)[1] :
        i \in {j \in 0..(process_tree_depth - 1) : Visit(table, pid, j) # None}}

AppIdIsGamescope(window_info) == window_info.app_id = Some(S_gamescope)

EnvironHasIsGame(table, window_info) ==
    /\ window_info.pid # None
    /\ window_info.pid[1] \in DOMAIN table
    /\ table[window_info.pid[1]].environ # None
    /\ \E i \in DOMAIN table[window_info.pid[1]].environ[1] :
            table[window_info.pid[1]].environ[1][i] = "IS_GAME=1"

CmdlineNamesGame(table, window_info) ==
    /\ window_info.pid # None
    /\ \E p \in Walked(table, window_info.pid[1]) \cap DOMAIN table :
            /\ table[p].cmdline # None
            /\ \/ OccursIn(table[p].cmdline[1], S_gamescope)
               \/ OccursIn(table[p].cmdline[1], S_gamemode)

NonGameAppIds ==
    {None, Some(<<"f", "i", "r", "e", "f", "o", "x">>), Some(<<"s", "t", "e", "a", "m">>),
     Some(<<"o", "r", "g", ".", "g", "n", "o", "m", "e", ".", "T", "e", "r", "m", "i", "n", "a", "l">>)}

C8_SteamAppPrefix ==
    (/\ probe # None
     /\ focused.pid = None
     /\ focused.app_id # None
     /\ StartsWith(focused.app_id[1], S_steam_app_))
        => probe[1] = TRUE

-----------------------------------------------------------------------------
(* Per-keyboard configuration view. A HashMap is a function on its keys. *)

\* the keys the configurations remap
RemapKeys == {"KC_A", "KC_B"}

\* the layers the configurations define
LayerNames == {"nav", "sym"}

\* the keyboards: kbd1 may have an override, kbd2 never has one
KeyboardIds == {"kbd1", "kbd2"}

\* Action::Key(keycode)
Key(keycode) == [kind |-> "Key", key |-> keycode]

\* every HashMap from some of the keys of K to the values of V
Maps(K, V) == UNION {[D -> V] : D \in SUBSET K}

BaseRemaps == Maps(RemapKeys, {Key("KC_1")})

GameRemaps == Maps(RemapKeys, {Key("KC_2")})

OverrideBaseRemaps == Maps(RemapKeys, {Key("KC_1"), Key("KC_3")})

OverrideGameRemaps == Maps(RemapKeys, {Key("KC_4")})

\* LayerConfig
LayerConfigs == {[remaps |-> m] : m \in {<<>>, [k \in {"KC_A"} |-> Key("KC_5")]}}

GlobalLayers == {<<>>, [l \in LayerNames |-> [remaps |-> <<>>]],
                 [l \in {"nav"} |-> [remaps |-> [k \in {"KC_A"} |-> Key("KC_5")]]]}

OverrideLayers == Maps({"nav"}, LayerConfigs)

\* KeymapOverride
KeymapOverrides ==
    [base_remaps : {None} \cup {Some(m) : m \in OverrideBaseRemaps},
     layers : {None} \cup {Some(m) : m \in OverrideLayers},
     game_mode_remaps : {None} \cup {Some(m) : m \in OverrideGameRemaps}]

\* SettingsOverride
SettingsOverrides ==
    {[tapping_term_ms |-> None, double_tap_window_ms |-> None],
     [tapping_term_ms |-> Some(150), double_tap_window_ms |-> None],
     [tapping_term_ms |-> None, double_tap_window_ms |-> Some(300)]}

\* KeyboardOverride
KeyboardOverrides ==
    [keymap : {None} \cup {Some(k) : k \in KeymapOverrides},
     settings : {None} \cup {Some(x) : x \in SettingsOverrides}]

\* Config
Configs ==
    [tapping_term_ms : {200},
     double_tap_window_ms : {None, Some(250)},
     enabled_keyboards : {None},
     remaps : BaseRemaps,
     layers : GlobalLayers,
     game_mode : [remaps : GameRemaps],
     keyboard_overrides : Maps({"kbd1"}, KeyboardOverrides)]

\* the map m with the entries of over written into it
MergeInto(m, over) ==
    [x \in (DOMAIN m) \cup (DOMAIN over) |-> IF x \in DOMAIN over THEN over[x] ELSE m[x]]

\* a keymap part that merges the override's maps into the global maps
ApplyKeymap_merge(cfg, keymap) ==
    LET with_base == IF keymap.base_remaps # None
                     THEN [cfg EXCEPT !.remaps = MergeInto(@, keymap.base_remaps[1])]
                     ELSE cfg
        with_layers == IF keymap.layers # None
                       THEN [with_base EXCEPT !.layers = MergeInto(@, keymap.layers[1])]
                       ELSE with_base
    IN  IF keymap.game_mode_remaps # None
        THEN [with_layers EXCEPT !.game_mode.remaps = MergeInto(@, keymap.game_mode_remaps[1])]
        ELSE with_layers

\* the keymap part of for_keyboard
ApplyKeymap(cfg, keymap) ==
    LET with_base == IF keymap.base_remaps # None
                     THEN [cfg EXCEPT !.remaps = keymap.base_remaps[1]]
                     ELSE cfg
        with_layers == IF keymap.layers # None
                       THEN [with_base EXCEPT !.layers = keymap.layers[1]]
                       ELSE with_base
    IN  IF keymap.game_mode_remaps # None
        THEN [with_layers EXCEPT !.game_mode.remaps = keymap.game_mode_remaps[1]]
        ELSE with_layers

\* the settings part of for_keyboard
ApplySettings(cfg, settings) ==
    LET with_term == IF settings.tapping_term_ms # None
                     THEN [cfg EXCEPT !.tapping_term_ms = settings.tapping_term_ms[1]]
                     ELSE cfg
    IN  IF settings.double_tap_window_ms # None
        THEN [with_term EXCEPT !.double_tap_window_ms = Some(settings.double_tap_window_ms[1])]
        ELSE with_term

for_keyboard(self, keyboard_id) ==
    IF keyboard_id \in DOMAIN self.keyboard_overrides
    THEN LET override_cfg == self.keyboard_overrides[keyboard_id]
             with_settings == IF override_cfg.settings # None
                              THEN ApplySettings(self, override_cfg.settings[1])
                              ELSE self
         IN  IF override_cfg.keymap # None
             THEN ApplyKeymap(with_settings, override_cfg.keymap[1])
             ELSE with_settings
    ELSE self

\* the action of a key on the base layer of an effective configuration: while
\* the game-mode signal is true the game overlay's remaps stand in place of
\* the base remaps; a key with no remap passes through
Lookup(cfg, game_active, keycode) ==
    LET table == IF game_active THEN cfg.game_mode.remaps ELSE cfg.remaps
    IN  IF keycode \in DOMAIN table THEN table[keycode] ELSE Key(keycode)

InitConfig ==
    /\ global_config \in Configs
    /\ effective = None
    /\ game_mode_active = FALSE
    /\ DtIdle
    /\ NiriIdle
    /\ IoIdle

\* a keyboard's effective configuration is built
ForKeyboard(keyboard_id) ==
    /\ effective' = Some([keyboard_id |-> keyboard_id,
                          config |-> for_keyboard(global_config, keyboard_id)])
    /\ UNCHANGED <<global_config, game_mode_active, dtVars, niriVars, ioVars>>

\* the game-mode signal flips
SetGameMode(active) ==
    /\ game_mode_active # active
    /\ game_mode_active' = active
    /\ UNCHANGED <<global_config, effective, dtVars, niriVars, ioVars>>

NextConfig ==
    \/ \E keyboard_id \in KeyboardIds : ForKeyboard(keyboard_id)
    \/ \E active \in BOOLEAN : SetGameMode(active)

SpecConfig == InitConfig /\ [][NextConfig]_vars

-----------------------------------------------------------------------------
(* C9, C10 *)

\* the keyboard of the latest for_keyboard call has an override
HasOverride == effective # None /\ effective[1].keyboard_id \in DOMAIN global_config.keyboard_overrides

TheKeymap == global_config.keyboard_overrides[effective[1].keyboard_id].keymap

\* the actions the keyboard's override gives a key, in either of its remaps
OverrideActions(keycode) ==
    IF TheKeymap = None
    THEN {}
    ELSE {m[1][keycode] : m \in {x \in {TheKeymap[1].base_remaps, TheKeymap[1].game_mode_remaps} :
                                    x # None /\ keycode \in DOMAIN x[1]}}

\* the override remaps the key, and so do the game overlay and the base
DefinedByAll(keycode) ==
    /\ HasOverride
    /\ TheKeymap # None
    /\ TheKeymap[1].base_remaps # None
    /\ keycode \in DOMAIN TheKeymap[1].base_remaps[1]
    /\ keycode \in DOMAIN global_config.game_mode.remaps
    /\ keycode \in DOMAIN global_config.remaps

\* the game overlay and the base remap the key, the override nowhere
DefinedByGameAndBaseOnly(keycode) ==
    /\ effective # None
    /\ HasOverride => OverrideActions(keycode) = {}
    /\ keycode \in DOMAIN global_config.game_mode.remaps
    /\ keycode \in DOMAIN global_config.remaps

\* C9 as claimed: a key defined by the keyboard's override, the game overlay
\* and the base remaps has the override's action, game mode active or not; a
\* key only the game overlay and the base define has the game overlay's
\* action while game mode is active
C9_OverridePrecedence ==
    \A keycode \in RemapKeys :
        /\ DefinedByAll(keycode) =>
                Lookup(effective[1].config, game_mode_active, keycode) \in OverrideActions(keycode)
        /\ (DefinedByGameAndBaseOnly(keycode) /\ game_mode_active) =>
                Lookup(effective[1].config, game_mode_active, keycode)
                    = global_config.game_mode.remaps[keycode]

\* the override's base_remaps and layers as for a keyboard with no override
\* when it gives none
MentionedKeys ==
    IF HasOverride /\ TheKeymap # None /\ TheKeymap[1].base_remaps # None
    THEN DOMAIN TheKeymap[1].base_remaps[1]
    ELSE {}

MentionedLayers ==
    IF HasOverride /\ TheKeymap # None /\ TheKeymap[1].layers # None
    THEN DOMAIN TheKeymap[1].layers[1]
    ELSE {}

\* C10 as claimed: a key of the global base remaps, and a layer of the global
\* layers, that the keyboard's override does not mention is in the result of
\* for_keyboard with its global value
C10_OverrideMerges ==
    effective # None =>
        /\ \A keycode \in DOMAIN global_config.remaps \ MentionedKeys :
                /\ keycode \in DOMAIN effective[1].config.remaps
                /\ effective[1].config.remaps[keycode] = global_config.remaps[keycode]
        /\ \A layer \in DOMAIN global_config.layers \ MentionedLayers :
                /\ layer \in DOMAIN effective[1].config.layers
                /\ effective[1].config.layers[layer] = global_config.layers[layer]

-----------------------------------------------------------------------------
(* Shutdown of a worker: the drain of its double-tap processor *)

\* the worker drains the processor with the one call that resolves waiting
\* keys, check_timeouts, and exits; the processor goes with it
Shutdown ==
    /\ ret.op # "shutdown"
    /\ \E order \in Orders(ExpiredKeys(tracked_keys, config, now)) :
          ret' = [op |-> "shutdown",
                  value |-> [i \in DOMAIN order |->
                               <<order[i], TimeoutResolution(tracked_keys[order[i]])>>]]
    /\ tracked_keys' = check_timeouts_tracked(tracked_keys, config, now)
    /\ hist' = [k \in DtKeys |->
                  IF k \in ExpiredKeys(tracked_keys, config, now)
                  THEN Append(hist[k], Event("timeout", k,
                                             TimeoutResolution(tracked_keys[k])))
                  ELSE hist[k]]
    /\ UNCHANGED <<now, down, released_at, config, niriVars, cfgVars, ioVars>>

\* the worker handles events until it is shut down
NextDtShutdown ==
    \/ ret.op # "shutdown" /\ Tick
    \/ ret.op # "shutdown" /\ \E k \in DtKeys : OnPress(k)
    \/ ret.op # "shutdown" /\ \E k \in DtKeys : OnRelease(k)
    \/ ret.op # "shutdown" /\ CheckTimeouts
    \/ Shutdown

SpecDtShutdown == InitDt /\ [][NextDtShutdown]_vars

-----------------------------------------------------------------------------
(* C13 *)

\* a press of a key that waits for its second tap, later than the window
\* after its release by the processor's measure
IsLatePressStep(k) ==
    /\ IsPressStep(k)
    /\ Tracked(k)
    /\ tracked_keys[k].state = WaitingSecondTap
    /\ elapsed_since_first_release(tracked_keys[k], now)[1] > config.double_tap_window_ms

\* C13 as claimed: a press of a waiting key later than the window after its
\* first release, not yet resolved by check_timeouts, produces the
\* SingleTap(tap_key) of the first tap and starts a new FirstPress entry
C13_LatePressCompletesFirstTap ==
    [][\A k \in DtKeys :
          IsLatePressStep(k)
              => /\ \E i \in DOMAIN ret'.value : ret'.value[i] = <<k, SingleTap(TapKeyOf(k))>>
                 /\ Tracked(k)'
                 /\ tracked_keys'[k].state = FirstPress]_vars

-----------------------------------------------------------------------------
(* C20 *)

\* a press of the key now would be returned as its double tap
PressAccepted(k) ==
    on_press(tracked_keys, config, k, TapKeyOf(k), DoubleTapKeyOf(k), now).res
        = DoubleTap(DoubleTapKeyOf(k))

\* a check_timeouts call now would resolve the key and remove its entry
TimeoutResolves(k) ==
    /\ k \in ExpiredKeys(tracked_keys, config, now)
    /\ k \notin DOMAIN check_timeouts_tracked(tracked_keys, config, now)

\* C20: for a key that waits for its second tap, at every elapsed time since
\* its first release exactly one of the two applies: a press is taken as the
\* double tap, when elapsed <= window, or check_timeouts resolves the key as
\* a single tap, when elapsed > window
C20_BoundaryDecidedOnce ==
    \A k \in DtKeys :
        (Tracked(k) /\ tracked_keys[k].state = WaitingSecondTap)
            => LET elapsed == as_millis(now - tracked_keys[k].first_release_at[1])
               IN  /\ PressAccepted(k) # TimeoutResolves(k)
                   /\ PressAccepted(k) <=> elapsed <= config.double_tap_window_ms
                   /\ TimeoutResolves(k) <=> elapsed > config.double_tap_window_ms

\* a key waits at exactly the window, a check_timeouts call has just left it
\* alone, and a press would still be its double tap
C20_Witness ==
    /\ ret.op = "check_timeouts"
    /\ \E k \in DtKeys :
          /\ Tracked(k)
          /\ tracked_keys[k].state = WaitingSecondTap
          /\ config.double_tap_window_ms >= 1
          /\ as_millis(now - tracked_keys[k].first_release_at[1]) = config.double_tap_window_ms
          /\ k \notin ResolvedBy(ret)
          /\ PressAccepted(k)

-----------------------------------------------------------------------------
(* C14 *)

\* what the override of the latest for_keyboard call names for a setting or
\* for a map of the keymap, as an Option
NamedSetting(field) ==
    LET settings == global_config.keyboard_overrides[effective[1].keyboard_id].settings
    IN  IF settings = None THEN None ELSE settings[1][field]

NamedMap(field) == IF TheKeymap = None THEN None ELSE TheKeymap[1][field]

\* the override's value where it names one, the global value where not
OrGlobal(named, global_value) == IF named # None THEN named[1] ELSE global_value

-----------------------------------------------------------------------------
(* C15 *)

\* the focus change was decided by the walk: neither the app_id nor the
\* environment of the window's process settled it
WalkMade ==
    /\ probe # None
    /\ focused.app_id # Some(S_gamescope)
    /\ focused.pid # None
    /\ ~check_is_game_env(proc, focused.pid[1])

TheWalk == InspectedPids(proc, focused.pid[1], process_tree_depth)

\* the cmdline of one of the pids is readable and contains pat in lower case
SeenIn(pids, pat) ==
    \E i \in DOMAIN pids :
        /\ ReadProc(proc, pids[i], "cmdline") # None
        /\ contains(to_lowercase(ReadProc(proc, pids[i], "cmdline")[1]), pat)

\* C15: the walk ends after at most 10 processes, cycles of parent links
\* included; it goes from a process to its parent only while the parent pid
\* is readable and above 1, so pid 1 is inspected only as the starting pid;
\* and the decision rests on the inspected processes alone
C15_WalkBounded ==
    WalkMade =>
        /\ Len(TheWalk) >= 1
        /\ Len(TheWalk) <= 10
        /\ TheWalk[1] = focused.pid[1]
        /\ \A i \in 2..Len(TheWalk) : TheWalk[i] > 1
        /\ \A i \in 1..(Len(TheWalk) - 1) :
              ReadProc(proc, TheWalk[i], "ppid") = Some(TheWalk[i + 1])
        /\ Len(TheWalk) < 10 =>
              LET last == ReadProc(proc, TheWalk[Len(TheWalk)], "ppid")
              IN  last = None \/ last[1] \in {0, 1}
        /\ probe[1] = (SeenIn(TheWalk, S_gamescope) \/ SeenIn(TheWalk, S_gamemode))

\* the parent links of pids 2 and 3 form a cycle and the walk ends after 10
C15_Witness ==
    /\ WalkMade
    /\ focused.pid = Some(2)
    /\ ReadProc(proc, 2, "ppid") = Some(3)
    /\ ReadProc(proc, 3, "ppid") = Some(2)
    /\ Len(TheWalk) = 10
    /\ TheWalk[10] = 3

-----------------------------------------------------------------------------
(* The config file. A RON file is the sequence of its fields, each a name and
   a value; disk.by is who wrote the file last. *)

\* the fields of Config in the order of the struct
ConfigFields ==
    <<"tapping_term_ms", "double_tap_window_ms", "enabled_keyboards", "remaps",
      "layers", "game_mode", "keyboard_overrides">>

\* the configurations in memory and in the files
SaveConfigs ==
    [tapping_term_ms : {200, 150},
     double_tap_window_ms : {None},
     enabled_keyboards : {None, Some(<<>>), Some(<<"kbd1">>)},
     remaps : {<<>>, [k \in {"KC_A"} |-> Key("KC_1")]},
     layers : {<<>>},
     game_mode : {[remaps |-> <<>>]},
     keyboard_overrides : {<<>>}]

\* ron::ser::to_string_pretty: every field of the value, in struct order
to_string_pretty(cfg) ==
    [i \in DOMAIN ConfigFields |-> <<ConfigFields[i], cfg[ConfigFields[i]]>>]

\* the value a file gives a field
FieldOf(content, name) ==
    content[CHOOSE i \in DOMAIN content : content[i][1] = name][2]

\* ron::from_str: the Config with each field as the file gives it
from_str(content) ==
    [name \in {ConfigFields[i] : i \in DOMAIN ConfigFields} |-> FieldOf(content, name)]

\* the same file with its fields written the other way round
Reversed(content) == [i \in DOMAIN content |-> content[Len(content) + 1 - i]]

\* the files a user may have written
Files ==
    {to_string_pretty(c) : c \in SaveConfigs}
        \cup {Reversed(to_string_pretty(c)) : c \in SaveConfigs}

\* Config::save: the file is the serialised Config, whatever it was
save(self) == Some(to_string_pretty(self))

\* Config::save_enabled_keyboards_only: it calls save
save_enabled_keyboards_only(self) == save(self)

InitSave ==
    /\ global_config \in SaveConfigs
    /\ effective = None
    /\ game_mode_active = FALSE
    /\ disk \in [content : {None} \cup {Some(f) : f \in Files}, by : {"user"}]
    /\ monitor = [pc |-> "not_started", stream |-> <<>>, read |-> <<>>, sends |-> <<>>,
                  rx_alive |-> TRUE, failures |-> 0, last |-> "none"]
    /\ toggle = [pc |-> "not_started", keyboards |-> <<>>, selections |-> {}, i |-> 1,
                 changes_made |-> FALSE, requests |-> <<>>, answers |-> <<>>,
                 result |-> "running", reported |-> "none"]
    /\ password = [pc |-> "not_started", config_dir |-> TRUE, file |-> <<>>,
                   result |-> [kind |-> "none", value |-> <<>>]]
    /\ DtIdle
    /\ NiriIdle

\* the user edits the file
EditFile(content) ==
    /\ disk' = [content |-> Some(content), by |-> "user"]
    /\ UNCHANGED <<monitor, toggle, password, cfgVars, dtVars, niriVars>>

\* Config::load: the file is read and parsed
Load ==
    /\ disk.content # None
    /\ global_config' = from_str(disk.content[1])
    /\ UNCHANGED <<effective, game_mode_active, ioVars, dtVars, niriVars>>

\* the Config in memory is saved with save_enabled_keyboards_only
SaveEnabledKeyboardsOnly ==
    /\ disk' = [content |-> save_enabled_keyboards_only(global_config),
                by |-> "save_enabled_keyboards_only"]
    /\ UNCHANGED <<monitor, toggle, password, cfgVars, dtVars, niriVars>>

NextSave ==
    \/ \E content \in Files : EditFile(content)
    \/ Load
    \/ SaveEnabledKeyboardsOnly

SpecSave == InitSave /\ [][NextSave]_vars

\* a call of save_enabled_keyboards_only over a file that was there
IsSaveOverFileStep ==
    /\ disk.by = "user"
    /\ disk.content # None
    /\ disk'.by = "save_enabled_keyboards_only"

\* C11 as claimed: after save_enabled_keyboards_only every field of the file
\* other than enabled_keyboards has the value it had on disk before the call
C11_WritesOnlyEnabledKeyboards ==
    [][IsSaveOverFileStep
          => \A i \in DOMAIN ConfigFields :
                ConfigFields[i] # "enabled_keyboards"
                    => FieldOf(disk'.content[1], ConfigFields[i])
                           = FieldOf(disk.content[1], ConfigFields[i])]_vars

-----------------------------------------------------------------------------
(* The niri monitor thread: the loop of start_niri_monitor *)

\* the most lines the monitor reads in a run of the model
MaxLines == 3

\* the count of failures is kept up to this number
MaxFailures == 2

S_window_focus_changed == <<"W", "i", "n", "d", "o", "w", " ", "f", "o", "c", "u", "s", " ", "c", "h", "a", "n", "g", "e", "d", ":">>

\* the lines of `niri msg event-stream`
EventLines ==
    {<<"W", "i", "n", "d", "o", "w", " ", "f", "o", "c", "u", "s", " ", "c", "h", "a", "n", "g", "e", "d", ":", " ", "7">>,
     <<" ", "W", "i", "n", "d", "o", "w", " ", "f", "o", "c", "u", "s", " ", "c", "h", "a", "n", "g", "e", "d", ":", " ", "7">>,
     <<"W", "i", "n", "d", "o", "w", " ", "o", "p", "e", "n", "e", "d">>}

\* what reader.lines() yields: a line, or an error of the read
StreamItems == {[ok |-> TRUE, line |-> l] : l \in EventLines} \cup {[ok |-> FALSE, line |-> <<>>]}

\* the event streams with at most n items, at most two at a time
EventStreams(n) ==
    {<<>>} \cup (IF n >= 1 THEN {<<a>> : a \in StreamItems} ELSE {})
           \cup (IF n >= 2 THEN {<<a, b>> : a \in StreamItems, b \in {x \in StreamItems : x.ok}} ELSE {})

\* what get_focused_window_info may return when a line is handled
FocusedWindows ==
    {[app_id |-> None, pid |-> None], [app_id |-> Some(S_gamescope), pid |-> Some(2)]}

\* the test of a line with the prefix anywhere in it
LineMatches_anywhere(line) == contains(line, S_window_focus_changed)

\* the test of a line: line.starts_with("Window focus changed:")
LineMatches(line) ==
    /\ Len(line) >= Len(S_window_focus_changed)
    /\ \A i \in DOMAIN S_window_focus_changed : line[i] = S_window_focus_changed[i]


\* a loop that gives up after MaxFailures failures
AfterFailure_gives_up(m, cause) ==
    [m EXCEPT !.pc = IF m.failures >= MaxFailures THEN "exited" ELSE "sleeping",
              !.stream = <<>>,
              !.last = cause,
              !.failures = IF m.failures < MaxFailures THEN m.failures + 1 ELSE m.failures]

\* the ways back to the top of the loop: the error is logged and the thread
\* sleeps five seconds; failures counts them as far as MaxFailures
AfterFailure(m, cause) ==
    [m EXCEPT !.pc = "sleeping",
              !.stream = <<>>,
              !.last = cause,
              !.failures = IF m.failures < MaxFailures THEN m.failures + 1 ELSE m.failures]

\* the thread at the top of its loop, the receiver of the channel alive
MonitorStarted ==
    [pc |-> "spawn", stream |-> <<>>, read |-> <<>>, sends |-> <<>>,
     rx_alive |-> TRUE, failures |-> 0, last |-> "none"]

InitMonitor ==
    /\ monitor = MonitorStarted
    /\ disk = [content |-> <<>>, by |-> "user"]
    /\ toggle = [pc |-> "not_started", keyboards |-> <<>>, selections |-> {}, i |-> 1,
                 changes_made |-> FALSE, requests |-> <<>>, answers |-> <<>>,
                 result |-> "running", reported |-> "none"]
    /\ password = [pc |-> "not_started", config_dir |-> TRUE, file |-> <<>>,
                   result |-> [kind |-> "none", value |-> <<>>]]
    /\ DtIdle
    /\ NiriIdle
    /\ ConfigIdle

\* Command::spawn fails
SpawnFails ==
    /\ monitor.pc = "spawn"
    /\ monitor' = AfterFailure(monitor, "spawn_failed")
    /\ UNCHANGED <<disk, toggle, password, dtVars, niriVars, cfgVars>>

\* the child has no stdout to take
NoStdout ==
    /\ monitor.pc = "spawn"
    /\ monitor' = AfterFailure(monitor, "no_stdout")
    /\ UNCHANGED <<disk, toggle, password, dtVars, niriVars, cfgVars>>

\* niri is spawned and its event stream is read from
SpawnOk(stream) ==
    /\ monitor.pc = "spawn"
    /\ monitor' = [monitor EXCEPT !.pc = "reading", !.stream = stream, !.last = "spawned"]
    /\ UNCHANGED <<disk, toggle, password, dtVars, niriVars, cfgVars>>

\* one turn of `for line in reader.lines()`
ReadItem ==
    /\ monitor.pc = "reading"
    /\ monitor.stream # <<>>
    /\ LET item == Head(monitor.stream)
           lines == Append(monitor.read, item.line)
       IN  IF ~item.ok
           THEN monitor' = AfterFailure(monitor, "read_error")
           ELSE IF ~LineMatches(item.line)
           THEN monitor' = [monitor EXCEPT !.read = lines, !.stream = Tail(@), !.last = "skipped"]
           ELSE \E window_info \in FocusedWindows :
                  IF monitor.rx_alive
                  THEN monitor' = [monitor EXCEPT
                          !.read = lines, !.stream = Tail(@), !.last = "sent",
                          !.sends = Append(@, [line |-> Len(lines), window |-> window_info,
                                               ok |-> TRUE])]
                  ELSE monitor' = [monitor EXCEPT
                          !.read = lines, !.stream = <<>>, !.last = "channel_closed",
                          !.pc = "exited",
                          !.sends = Append(@, [line |-> Len(lines), window |-> window_info,
                                               ok |-> FALSE])]
    /\ UNCHANGED <<disk, toggle, password, dtVars, niriVars, cfgVars>>

\* reader.lines() is at its end
StreamEnds ==
    /\ monitor.pc = "reading"
    /\ monitor.stream = <<>>
    /\ monitor' = AfterFailure(monitor, "stream_ended")
    /\ UNCHANGED <<disk, toggle, password, dtVars, niriVars, cfgVars>>

\* the five seconds of thread::sleep are over
Wake ==
    /\ monitor.pc = "sleeping"
    /\ monitor' = [monitor EXCEPT !.pc = "spawn"]
    /\ UNCHANGED <<disk, toggle, password, dtVars, niriVars, cfgVars>>

\* the receiver of the channel is dropped
ReceiverDropped ==
    /\ monitor.rx_alive
    /\ monitor' = [monitor EXCEPT !.rx_alive = FALSE]
    /\ UNCHANGED <<disk, toggle, password, dtVars, niriVars, cfgVars>>

NextMonitor ==
    \/ SpawnFails
    \/ NoStdout
    \/ \E stream \in EventStreams(MaxLines - Len(monitor.read)) : SpawnOk(stream)
    \/ ReadItem
    \/ StreamEnds
    \/ Wake
    \/ ReceiverDropped

SpecMonitor == InitMonitor /\ [][NextMonitor]_vars

-----------------------------------------------------------------------------
(* C16, C17 *)

\* the places in the lines read of those that start with the prefix
FocusLines ==
    {i \in DOMAIN monitor.read : StartsWith(monitor.read[i], S_window_focus_changed)}

\* C16: the monitor sends one WindowFocusChanged for every line read that
\* starts with "Window focus changed:", in the order of the lines, and
\* nothing for any other line; every send but one on a closed channel, which
\* ends the thread, puts its event on the channel
C16_OneEventPerFocusLine ==
    /\ Len(monitor.sends) = Cardinality(FocusLines)
    /\ \A j \in DOMAIN monitor.sends : monitor.sends[j].line \in FocusLines
    /\ \A j, k \in DOMAIN monitor.sends :
          j < k => monitor.sends[j].line < monitor.sends[k].line
    /\ \A j \in DOMAIN monitor.sends :
          ~monitor.sends[j].ok => j = Len(monitor.sends) /\ monitor.pc = "exited"

\* a focus line, a line with the prefix after a space, a focus line: two
\* events, for the first and the third
C16_Witness ==
    /\ Len(monitor.read) = 3
    /\ FocusLines = {1, 3}
    /\ contains(monitor.read[2], S_window_focus_changed)
    /\ Len(monitor.sends) = 2
    /\ monitor.sends[1].ok /\ monitor.sends[2].ok
    /\ monitor.sends[1].line = 1 /\ monitor.sends[2].line = 3

MonitorFailures == {"spawn_failed", "no_stdout", "read_error", "stream_ended"}

\* C17: after a failed spawn, a missing stdout, a read error or the end of
\* the stream the thread sleeps and then starts a new stream, however many
\* failures came before; it ends only by a send on a closed channel
C17_RetryForever ==
    /\ [](monitor.pc = "sleeping" => ENABLED Wake)
    /\ [](monitor.pc = "spawn" => ENABLED SpawnOk(<<>>))
    /\ [][/\ (monitor.pc \in {"spawn", "reading"} /\ monitor'.pc # monitor.pc
                  /\ monitor'.last \in MonitorFailures)
              => monitor'.pc = "sleeping"
          /\ (monitor.pc = "spawn" /\ monitor'.pc # "spawn")
              => monitor'.pc \in {"sleeping", "reading"}
          /\ (monitor.pc = "reading" /\ monitor'.pc # "reading")
              => \/ monitor'.pc = "sleeping" /\ monitor'.last \in MonitorFailures
                 \/ monitor'.pc = "exited"
          /\ (monitor.pc = "sleeping" /\ monitor'.pc # "sleeping")
              => monitor'.pc = "spawn"
          /\ (monitor.pc # "exited" /\ monitor'.pc = "exited")
              => /\ monitor.pc = "reading"
                 /\ ~monitor.rx_alive
                 /\ monitor'.last = "channel_closed"
                 /\ ~monitor'.sends[Len(monitor'.sends)].ok]_vars

\* a new stream is being read after two or more failures
C17_Witness ==
    /\ monitor.failures >= 2
    /\ monitor.pc = "reading"
    /\ monitor.last = "spawned"
    /\ monitor.stream # <<>>

-----------------------------------------------------------------------------
(* handle_toggle and its IPC exchange with the daemon *)

HardwareIds == {"kbd1", "kbd2", "kbd3"}

\* IpcResponse::KeyboardList: the keyboards in listing order, each with its
\* hardware_id and whether it is enabled
KeyboardLists ==
    UNION {{kbds \in [1..n -> [hardware_id : HardwareIds, enabled : BOOLEAN]] :
               \A i, j \in 1..n : kbds[i].hardware_id = kbds[j].hardware_id => i = j} :
           n \in 0..Cardinality(HardwareIds)}

\* what ipc::send_request gives for an enable or disable request:
\* Ok(IpcResponse::Ok), Ok(another response), or Err
Answers == {"Ok", "Error", "Err"}

\* a request for every selected keyboard, enabled already or not
RequestFor_selected(kbd, should_enable) ==
    IF should_enable
    THEN Some([req |-> "EnableKeyboard", hardware_id |-> kbd.hardware_id])
    ELSE IF kbd.enabled
         THEN Some([req |-> "DisableKeyboard", hardware_id |-> kbd.hardware_id])
         ELSE None

\* the request one turn of the loop sends for a keyboard, if any
RequestFor(kbd, should_enable) ==
    IF should_enable /\ ~kbd.enabled
    THEN Some([req |-> "EnableKeyboard", hardware_id |-> kbd.hardware_id])
    ELSE IF ~should_enable /\ kbd.enabled
         THEN Some([req |-> "DisableKeyboard", hardware_id |-> kbd.hardware_id])
         ELSE None

\* handle_toggle is entered
ToggleStarted ==
    [pc |-> "list", keyboards |-> <<>>, selections |-> {}, i |-> 1,
     changes_made |-> FALSE, requests |-> <<>>, answers |-> <<>>,
     result |-> "running", reported |-> "none"]

InitToggle ==
    /\ toggle = ToggleStarted
    /\ disk = [content |-> <<>>, by |-> "user"]
    /\ monitor = [pc |-> "not_started", stream |-> <<>>, read |-> <<>>, sends |-> <<>>,
                  rx_alive |-> TRUE, failures |-> 0, last |-> "none"]
    /\ password = [pc |-> "not_started", config_dir |-> TRUE, file |-> <<>>,
                   result |-> [kind |-> "none", value |-> <<>>]]
    /\ DtIdle
    /\ NiriIdle
    /\ ConfigIdle

\* send_request(ListKeyboards) fails or is answered by another response
ListFails ==
    /\ toggle.pc = "list"
    /\ toggle' = [toggle EXCEPT !.pc = "done", !.result = "Err"]
    /\ UNCHANGED <<disk, monitor, password, dtVars, niriVars, cfgVars>>

\* send_request(ListKeyboards) is answered by the list of keyboards
ListKeyboards(kbds) ==
    /\ toggle.pc = "list"
    /\ toggle' = IF kbds = <<>>
                 THEN [toggle EXCEPT !.pc = "done", !.result = "Ok",
                                     !.reported = "no_keyboards"]
                 ELSE [toggle EXCEPT !.pc = "select", !.keyboards = kbds]
    /\ UNCHANGED <<disk, monitor, password, dtVars, niriVars, cfgVars>>

\* MultiSelect::interact fails
SelectFails ==
    /\ toggle.pc = "select"
    /\ toggle' = [toggle EXCEPT !.pc = "done", !.result = "Err"]
    /\ UNCHANGED <<disk, monitor, password, dtVars, niriVars, cfgVars>>

\* the user confirms a selection
Select(selections) ==
    /\ toggle.pc = "select"
    /\ toggle' = [toggle EXCEPT !.pc = "apply", !.selections = selections]
    /\ UNCHANGED <<disk, monitor, password, dtVars, niriVars, cfgVars>>

\* one turn of the loop over the keyboards, its request answered by answer
ApplyOne(answer) ==
    /\ toggle.pc = "apply"
    /\ toggle.i <= Len(toggle.keyboards)
    /\ LET kbd == toggle.keyboards[toggle.i]
           request == RequestFor(kbd, toggle.i \in toggle.selections)
       IN  IF request = None
           THEN /\ answer = "Ok"
                /\ toggle' = [toggle EXCEPT !.i = @ + 1]
           ELSE toggle' =
                  [toggle EXCEPT
                     !.requests = Append(@, request[1]),
                     !.answers = Append(@, answer),
                     !.i = @ + 1,
                     !.changes_made = @ \/ answer = "Ok",
                     !.pc = IF answer = "Err" THEN "done" ELSE @,
                     !.result = IF answer = "Err" THEN "Err" ELSE @]
    /\ UNCHANGED <<disk, monitor, password, dtVars, niriVars, cfgVars>>

\* the loop is over: the outcome is printed and Ok(()) returned
Report ==
    /\ toggle.pc = "apply"
    /\ toggle.i > Len(toggle.keyboards)
    /\ toggle' = [toggle EXCEPT
                    !.pc = "done", !.result = "Ok",
                    !.reported = IF toggle.changes_made THEN "success" ELSE "no_changes"]
    /\ UNCHANGED <<disk, monitor, password, dtVars, niriVars, cfgVars>>

NextToggle ==
    \/ ListFails
    \/ \E kbds \in KeyboardLists : ListKeyboards(kbds)
    \/ SelectFails
    \/ \E selections \in SUBSET (DOMAIN toggle.keyboards) : Select(selections)
    \/ \E answer \in Answers : ApplyOne(answer)
    \/ Report

SpecToggle == InitToggle /\ [][NextToggle]_vars

-----------------------------------------------------------------------------
(* C18 *)

\* the keyboard at place i of the listing is selected otherwise than listed
Changed(i) == (i \in toggle.selections) # toggle.keyboards[i].enabled

RECURSIVE DueRequests(_)
\* the requests due for the first n keyboards of the listing, in its order:
\* EnableKeyboard for one selected and listed as disabled, DisableKeyboard
\* for one unselected and listed as enabled
DueRequests(n) ==
    IF n = 0
    THEN <<>>
    ELSE DueRequests(n - 1) \o
            (IF Changed(n)
             THEN <<[req |-> IF n \in toggle.selections
                             THEN "EnableKeyboard" ELSE "DisableKeyboard",
                     hardware_id |-> toggle.keyboards[n].hardware_id]>>
             ELSE <<>>)

AnsweredOk == \E j \in DOMAIN toggle.answers : toggle.answers[j] = "Ok"

\* handle_toggle is over after a selection was confirmed
ToggleOver == toggle.pc = "done" /\ toggle.keyboards # <<>> /\ toggle.i > 1

-----------------------------------------------------------------------------
(* Passwords::load. The file is absent (None) or there; a file that is there
   is readable as text or not. *)

\* the longest password file of the model, in characters
MaxPasswordLen == 3

\* the characters of the password files; the first three are white space
PasswordChars == {" ", "\n", "\t", "p", "w"}

WhiteSpace == {" ", "\n", "\t"}

\* the contents of a readable file
PasswordContents == UNION {[1..n -> PasswordChars] : n \in 0..MaxPasswordLen}

PasswordFiles ==
    {None, Some([readable |-> FALSE, content |-> <<>>])}
        \cup {Some([readable |-> TRUE, content |-> c]) : c \in PasswordContents}

RECURSIVE trim_start(_)
\* str::trim_start
trim_start(s) ==
    IF s # <<>> /\ Head(s) \in WhiteSpace THEN trim_start(Tail(s)) ELSE s

RECURSIVE trim_end(_)
\* str::trim_end
trim_end(s) ==
    IF s # <<>> /\ s[Len(s)] \in WhiteSpace THEN trim_end(SubSeq(s, 1, Len(s) - 1)) ELSE s

\* a trim that leaves the end of the string as it is
trim_start_only(s) == trim_start(s)

\* str::trim
trim(s) == trim_end(trim_start(s))

\* Passwords::load: Err, Ok(None) or Ok(Some(password))
Passwords_load(config_dir, file) ==
    IF ~config_dir
    THEN [kind |-> "Err", value |-> None]
    ELSE IF file = None
    THEN [kind |-> "Ok", value |-> None]
    ELSE IF ~file[1].readable
    THEN [kind |-> "Err", value |-> None]
    ELSE LET trimmed == trim(file[1].content)
         IN  IF trimmed = <<>>
             THEN [kind |-> "Ok", value |-> None]
             ELSE [kind |-> "Ok", value |-> Some(trimmed)]

InitPassword ==
    /\ password \in [pc : {"load"}, config_dir : BOOLEAN, file : PasswordFiles,
                     result : {[kind |-> "none", value |-> None]}]
    /\ disk = [content |-> <<>>, by |-> "user"]
    /\ monitor = [pc |-> "not_started", stream |-> <<>>, read |-> <<>>, sends |-> <<>>,
                  rx_alive |-> TRUE, failures |-> 0, last |-> "none"]
    /\ toggle = [pc |-> "not_started", keyboards |-> <<>>, selections |-> {}, i |-> 1,
                 changes_made |-> FALSE, requests |-> <<>>, answers |-> <<>>,
                 result |-> "running", reported |-> "none"]
    /\ DtIdle
    /\ NiriIdle
    /\ ConfigIdle

\* Passwords::load is called for the file
LoadPassword ==
    /\ password.pc = "load"
    /\ password' = [password EXCEPT
                      !.pc = "loaded",
                      !.result = Passwords_load(password.config_dir, password.file)]
    /\ UNCHANGED <<disk, monitor, toggle, dtVars, niriVars, cfgVars>>

NextPassword == LoadPassword

SpecPassword == InitPassword /\ [][NextPassword]_vars

-----------------------------------------------------------------------------
(* C19 *)

\* the places of a text that hold something other than white space
InkAt(s) == {i \in DOMAIN s : s[i] \notin WhiteSpace}

\* a text from its first to its last character that is not white space
Trimmed(s) ==
    SubSeq(s, CHOOSE i \in InkAt(s) : \A j \in InkAt(s) : i <= j,
              CHOOSE i \in InkAt(s) : \A j \in InkAt(s) : i >= j)

\* C19 as claimed: load returns None when the file does not exist or holds
\* only white space, and otherwise the trimmed content; never an empty string
C19_Original ==
    password.pc = "loaded" =>
        /\ password.result.kind = "Ok"
        /\ IF password.file = None
           THEN password.result.value = None
           ELSE IF password.file[1].readable /\ InkAt(password.file[1].content) = {}
           THEN password.result.value = None
           ELSE password.result.value = Some(Trimmed(password.file[1].content))
        /\ password.result.value # Some(<<>>)

\* C19 as amended: with the config directory known, load returns Ok(None)
\* when the file does not exist or is read and holds only white space,
\* Ok(Some(trimmed content)) when it is read and holds more, and Err when the
\* file is there and cannot be read; with no config directory it returns
\* Err; it never returns an empty string
C19_AbsentIsNone ==
    password.pc = "loaded" =>
        /\ ~password.config_dir => password.result.kind = "Err"
        /\ password.config_dir =>
              IF password.file = None
              THEN password.result = [kind |-> "Ok", value |-> None]
              ELSE IF ~password.file[1].readable
              THEN password.result.kind = "Err"
              ELSE IF InkAt(password.file[1].content) = {}
              THEN password.result = [kind |-> "Ok", value |-> None]
              ELSE password.result =
                      [kind |-> "Ok", value |-> Some(Trimmed(password.file[1].content))]
        /\ password.result.value # Some(<<>>)

\* a password with a space inside and white space around it
C19_Witness ==
    /\ password.pc = "loaded"
    /\ password.file = Some([readable |-> TRUE, content |-> <<"p", " ", "w">>])
        \/ password.file = Some([readable |-> TRUE, content |-> <<"\t", "p", "\n">>])
    /\ password.result.kind = "Ok"
    /\ password.result.value # None
    /\ Len(password.result.value[1]) \in {1, 3}

-----------------------------------------------------------------------------
(* The processor under any sequence of calls: a caller that is not bound to
   one physical keyboard may press a key it has not released and release a
   key it has not pressed. down and released_at stay as InitDt left them. *)

\* the most calls recorded for one entry before an on_release that would
\* change nothing in tracked_keys is held back
MaxCalls == 3

\* one record of hist: the call, the state of the key's entry before it, and
\* the resolution returned for the key
Call(op, keycode, res) ==
    [op |-> op,
     pre |-> IF keycode \in DOMAIN tracked_keys
             THEN tracked_keys[keycode].state ELSE "Untracked",
     res |-> res]

\* a bound on the caller: it releases a key only while no other key's entry
\* is past FirstPress, so that one key at a time is between its first release
\* and the end of its entry; presses and timeouts of the other keys go on
OneTapAtATime(keycode) ==
    \A j \in (DOMAIN tracked_keys) \ {keycode} : tracked_keys[j].state = FirstPress

\* time passes between two calls
Elapse ==
    /\ now < MaxTime
    /\ now' = now + 1
    /\ UNCHANGED <<down, released_at, config, tracked_keys, hist, ret,
                   niriVars, cfgVars, ioVars>>

\* on_press, whatever the key's entry; a press that starts a new entry
\* starts a new hist
CallOnPress(keycode) ==
    /\ LET r == on_press(tracked_keys, config, keycode, TapKeyOf(keycode),
                         DoubleTapKeyOf(keycode), now)
           e == Call("press", keycode, r.res)
       IN /\ tracked_keys' = r.tracked
          /\ ret' = [op |-> "on_press", value |-> <<<<keycode, r.res>>>>]
          /\ hist' = [hist EXCEPT ![keycode] =
                        IF r.res = Undecided THEN <<e>> ELSE Append(@, e)]
    /\ UNCHANGED <<now, down, released_at, config, niriVars, cfgVars, ioVars>>

\* on_release, whatever the key's entry; hist records the calls made on an
\* entry, so a release of a key that has none is not recorded
CallOnRelease(keycode) ==
    /\ OneTapAtATime(keycode)
    /\ \/ on_release(tracked_keys, keycode, now).tracked # tracked_keys
       \/ Len(hist[keycode]) < MaxCalls
    /\ LET r == on_release(tracked_keys, keycode, now)
           e == Call("release", keycode, r.res)
       IN /\ tracked_keys' = r.tracked
          /\ ret' = [op |-> "on_release", value |-> <<<<keycode, r.res>>>>]
          /\ hist' = [hist EXCEPT ![keycode] =
                        IF keycode \in DOMAIN tracked_keys THEN Append(@, e) ELSE @]
    /\ UNCHANGED <<now, down, released_at, config, niriVars, cfgVars, ioVars>>

\* check_timeouts, at any time
CallCheckTimeouts ==
    /\ \E order \in Orders(ExpiredKeys(tracked_keys, config, now)) :
          ret' = [op |-> "check_timeouts",
                  value |-> [i \in DOMAIN order |->
                               <<order[i], TimeoutResolution(tracked_keys[order[i]])>>]]
    /\ tracked_keys' = check_timeouts_tracked(tracked_keys, config, now)
    /\ hist' = [k \in DtKeys |->
                  IF k \in ExpiredKeys(tracked_keys, config, now)
                  THEN Append(hist[k], Call("timeout", k,
                                            TimeoutResolution(tracked_keys[k])))
                  ELSE hist[k]]
    /\ UNCHANGED <<now, down, released_at, config, niriVars, cfgVars, ioVars>>

NextDtCalls ==
    \/ Elapse
    \/ \E k \in DtKeys : CallOnPress(k)
    \/ \E k \in DtKeys : CallOnRelease(k)
    \/ CallCheckTimeouts

SpecDtCalls == InitDt /\ [][NextDtCalls]_vars

-----------------------------------------------------------------------------
(* C21 *)

\* the resolutions other than Undecided that the key's entry has yielded
\* since the press that created it, in the order of the calls
Resolutions(k) ==
    SelectSeq([i \in DOMAIN hist[k] |-> hist[k][i].res], LAMBDA r : r # Undecided)

\* C21: from its creation by on_press to its removal a tracking entry yields
\* at most one resolution other than Undecided, one DoubleTap or one
\* SingleTap, never both and never the same one twice, under any sequence of
\* on_press, on_release and check_timeouts; an entry still waiting in
\* FirstPress or WaitingSecondTap has yielded none, and an entry in
\* DoubleTapDetected has yielded its DoubleTap and nothing else
C21_AtMostOneResolution ==
    \A k \in DtKeys :
        /\ Len(Resolutions(k)) <= 1
        /\ k \in DOMAIN tracked_keys =>
              IF tracked_keys[k].state = DoubleTapDetected
              THEN Resolutions(k) = <<DoubleTap(tracked_keys[k].double_tap_key)>>
              ELSE Resolutions(k) = <<>>

\* an entry has yielded its DoubleTap and is still tracked, and
\* check_timeouts, called with the window over since both its press and its
\* release, has just returned nothing for it
C21_Witness ==
    /\ ret = [op |-> "check_timeouts", value |-> <<>>]
    /\ \E k \in DtKeys :
          /\ k \in DOMAIN tracked_keys
          /\ tracked_keys[k].state = DoubleTapDetected
          /\ Resolutions(k) = <<DoubleTap(DoubleTapKeyOf(k))>>
          /\ as_millis(now - tracked_keys[k].first_release_at[1])
                > config.double_tap_window_ms
          /\ as_millis(now - tracked_keys[k].first_press_at)
                > config.double_tap_window_ms

====
